---------------------------- MODULE Spec2Model ----------------------------
(***************************************************************************)
(* cosmic-atlas: the NASA and NOAA-SWPC API clients of the backend and the *)
(* polling ISS page of the frontend.                                       *)
(*                                                                         *)
(*   packages/backend/src/services/nasa.ts          NASAClient             *)
(*   packages/backend/src/services/spaceWeather.ts  SpaceWeatherClient     *)
(*   packages/frontend/app/iss/page.tsx             ISSPage                *)
(*                                                                         *)
(* Three independent parts share the module; each has its own next-state   *)
(* relation and specification and leaves the other parts' variables alone. *)
(*                                                                         *)
(* An optional JavaScript value is a sequence: <<>> is undefined, <<v>> is *)
(* the value v.  Date.now() timestamps are left out of the envelopes: no   *)
(* branch reads them.                                                      *)
(***************************************************************************)
EXTENDS Integers, Sequences, FiniteSets, TLC

VARIABLES
    req,        \* NASAClient: the cachedGet request built by the latest call
    prev,       \* NASAClient: the cachedGet request built by the call before it
    fetch,      \* SpaceWeatherClient: each cachedGet promise: idle, pending or its envelope
    order,      \* SpaceWeatherClient: the cachedGet promises in the order they settled
    sumPc,      \* getSpaceWeatherSummary: idle, issuing, await, done
    auroraPc,   \* getAuroraForecast: idle, issuing, await, done
    aurora,     \* the envelope getAuroraForecast resolved with (<<>>: not yet)
    summary,    \* the envelope getSpaceWeatherSummary resolved with (<<>>: not yet)
    position,   \* ISSPage: useState position (<<>>: null)
    astronauts, \* ISSPage: useState astronauts
    loading,    \* ISSPage: useState loading
    error,      \* ISSPage: useState error (<<>>: null)
    status,     \* ISSPage: rendered, mounted, unmounted
    interval,   \* ISSPage: the setInterval timer: none, active, cleared
    cycles,     \* ISSPage: the fetchData invocations started so far, each at its await
    lastEvent,  \* ISSPage: the response the latest fetchData step received
    atUnmount   \* ISSPage: the cycles as they stood when the effect cleanup ran

nasaVars == <<req, prev>>
weatherVars == <<fetch, order, sumPc, auroraPc, aurora, summary>>
issVars == <<position, astronauts, loading, error, status, interval, cycles, lastEvent,
             atUnmount>>
vars == <<req, prev, fetch, order, sumPc, auroraPc, aurora, summary,
          position, astronauts, loading, error, status, interval, cycles, lastEvent,
          atUnmount>>

(***************************************************************************)
(* JavaScript values                                                       *)
(***************************************************************************)
Undefined == <<>>

\* Truthiness of an optional string: undefined and '' are falsy.
TruthyStr(s) == s # Undefined /\ s[1] # ""

\* Truthiness of an optional number: undefined and 0 are falsy.
TruthyNum(n) == n # Undefined /\ n[1] # 0

(***************************************************************************)
(* NASAClient                                                              *)
(***************************************************************************)
ApiKey == "NASA_KEY"

DefaultSol == 1000

\* dim is kept in thousandths: 25 is 0.025.
DefaultDim == 25

NoRequest == [op |-> "none"]

\* getAPOD(date?)
getAPOD(date) ==
    [op     |-> "getAPOD",
     args   |-> [date |-> date],
     path   |-> "/planetary/apod",
     params |-> IF TruthyStr(date)
                  THEN [api_key |-> ApiKey, date |-> date[1]]
                  ELSE [api_key |-> ApiKey],
     key    |-> "apod:" \o (IF TruthyStr(date) THEN date[1] ELSE "today"),
     ttl    |-> "apod"]

\* String.prototype.toLowerCase on the rover names the model draws.
RoverToLowerCase(rover) ==
    CASE rover = "Curiosity" -> "curiosity"
      [] rover = "SPIRIT"    -> "spirit"
      [] OTHER               -> rover

\* Mutant: if (sol) instead of if (sol !== undefined).
MarsSolParamsTruthy(sol, earthDate) ==
    IF TruthyNum(sol)
      THEN [api_key |-> ApiKey, sol |-> sol[1]]
      ELSE IF TruthyStr(earthDate)
             THEN [api_key |-> ApiKey, earth_date |-> earthDate[1]]
             ELSE [api_key |-> ApiKey, sol |-> DefaultSol]

\* The sol / earth_date / default branch of getMarsPhotos.
MarsSolParams(sol, earthDate) ==
    IF sol # Undefined
      THEN [api_key |-> ApiKey, sol |-> sol[1]]
      ELSE IF TruthyStr(earthDate)
             THEN [api_key |-> ApiKey, earth_date |-> earthDate[1]]
             ELSE [api_key |-> ApiKey, sol |-> DefaultSol]

\* if (camera) params.camera = camera
WithCamera(params, camera) ==
    IF TruthyStr(camera)
      THEN [k \in DOMAIN params \cup {"camera"} |->
              IF k = "camera" THEN camera[1] ELSE params[k]]
      ELSE params

\* `mars:${rover}:${sol || earthDate || 'default'}:${camera || 'all'}`
MarsCacheKey(rover, sol, earthDate, camera) ==
    "mars:" \o rover \o ":"
      \o (IF TruthyNum(sol) THEN ToString(sol[1])
          ELSE IF TruthyStr(earthDate) THEN earthDate[1]
          ELSE "default")
      \o ":" \o (IF TruthyStr(camera) THEN camera[1] ELSE "all")

\* getMarsPhotos(rover, sol?, earthDate?, camera?)
getMarsPhotos(rover, sol, earthDate, camera) ==
    [op     |-> "getMarsPhotos",
     args   |-> [rover |-> rover, sol |-> sol, earthDate |-> earthDate, camera |-> camera],
     path   |-> "/mars-photos/api/v1/rovers/" \o RoverToLowerCase(rover) \o "/photos",
     params |-> WithCamera(MarsSolParams(sol, earthDate), camera),
     key    |-> MarsCacheKey(rover, sol, earthDate, camera),
     ttl    |-> "mars"]

\* getNearEarthObjects(startDate, endDate)
getNearEarthObjects(startDate, endDate) ==
    [op     |-> "getNearEarthObjects",
     args   |-> [startDate |-> startDate, endDate |-> endDate],
     path   |-> "/neo/rest/v1/feed",
     params |-> [api_key |-> ApiKey, start_date |-> startDate, end_date |-> endDate],
     key    |-> "neo:" \o startDate \o ":" \o endDate,
     ttl    |-> "neo"]

\* `earth-imagery:${lat}:${lon}:${date || 'latest'}`
EarthCacheKey(lat, lon, date) ==
    "earth-imagery:" \o ToString(lat) \o ":" \o ToString(lon) \o ":"
      \o (IF TruthyStr(date) THEN date[1] ELSE "latest")

\* getEarthImagery(lat, lon, date?, dim = 0.025)
getEarthImagery(lat, lon, date, dim) ==
    LET d == IF dim = Undefined THEN DefaultDim ELSE dim[1]
        base == [api_key |-> ApiKey, lat |-> lat, lon |-> lon, dim |-> d]
    IN  [op     |-> "getEarthImagery",
         args   |-> [lat |-> lat, lon |-> lon, date |-> date, dim |-> dim],
         path   |-> "/planetary/earth/imagery",
         params |-> IF TruthyStr(date)
                      THEN [k \in DOMAIN base \cup {"date"} |->
                              IF k = "date" THEN date[1] ELSE base[k]]
                      ELSE base,
         key    |-> EarthCacheKey(lat, lon, date),
         ttl    |-> "earth"]

\* The DONKI allow-list: the keys (and values) of typeMap.
typeMap ==
    [FLR |-> "FLR", SEP |-> "SEP", CME |-> "CME", IPS |-> "IPS",
     MPC |-> "MPC", GST |-> "GST", RBE |-> "RBE", HSS |-> "HSS"]

\* U+00DF, the one character of the model whose upper case is two characters.
SharpS == "sharp-s"

\* String.prototype.toUpperCase on one character.
UpperChar(c) ==
    CASE c = "f" -> "F" [] c = "l" -> "L" [] c = "r" -> "R"
      [] c = "c" -> "C" [] c = "m" -> "M" [] c = "e" -> "E"
      [] c = "h" -> "H" [] c = "s" -> "S"
      [] c = SharpS -> "SS"
      [] OTHER -> c

\* String.prototype.toUpperCase: a type string is the sequence of its characters.
RECURSIVE ToUpperCase(_)
ToUpperCase(chars) ==
    IF chars = <<>> THEN ""
    ELSE UpperChar(Head(chars)) \o ToUpperCase(Tail(chars))

\* typeMap[k]: an own property of the object literal, else undefined.  (No name
\* Object.prototype supplies is all upper case, so an upper-cased key never
\* reaches the prototype.)
TypeMapLookup(k) == IF k \in DOMAIN typeMap THEN <<typeMap[k]>> ELSE Undefined

\* The type string as written.
RECURSIVE Join(_)
Join(chars) == IF chars = <<>> THEN "" ELSE Head(chars) \o Join(Tail(chars))

\* Mutant: typeMap[type], the lookup without toUpperCase.
DonkiTypeKeyAsWritten(type) == Join(type)

\* The key looked up in typeMap: type.toUpperCase()
DonkiTypeKey(type) == ToUpperCase(type)

\* typeMap[type.toUpperCase()] || 'FLR'

EventType(type) ==
    LET hit == TypeMapLookup(DonkiTypeKey(type))
    IN  IF TruthyStr(hit) THEN hit[1] ELSE "FLR"

\* getDONKIEvents(type, startDate, endDate)
getDONKIEvents(type, startDate, endDate) ==
    LET eventType == EventType(type)
    IN  [op      |-> "getDONKIEvents",
         args    |-> [type |-> type, startDate |-> startDate, endDate |-> endDate],
         segment |-> eventType,
         path    |-> "/DONKI/" \o eventType,
         params  |-> [api_key |-> ApiKey, startDate |-> startDate, endDate |-> endDate],
         key     |-> "donki:" \o eventType \o ":" \o startDate \o ":" \o endDate,
         ttl     |-> "spaceWeather"]

(***************************************************************************)
(* The arguments the NASAClient calls are drawn from.                      *)
(***************************************************************************)
MaxTypeLen == 3

Dates == {"2024-01-01", "2024-01-07"}
OptDates == {Undefined, <<"">>} \cup {<<d>> : d \in Dates}
Rovers == {"curiosity", "Curiosity", "SPIRIT"}
OptSols == {Undefined, <<0>>, <<1>>, <<DefaultSol>>}
OptEarthDates == {Undefined, <<"">>, <<"2024-01-01">>}
OptCameras == {Undefined, <<"">>, <<"MAST">>}
Lats == {-33, 0}
Lons == {0, 151}
OptDims == {Undefined, <<DefaultDim>>, <<500>>}
TypeAlphabet ==
    {"f", "l", "r", "F", "L", "R", "c", "m", "e", "C", "M", "E",
     "h", "s", "H", "S", SharpS}
TypeStrings == UNION {[1..n -> TypeAlphabet] : n \in 0..MaxTypeLen}
TypeSamples ==
    {<<"F", "L", "R">>, <<"f", "l", "r">>, <<"C", "m", "e">>, <<"h", SharpS>>, <<>>}


\* One NASAClient call at a time: the request it hands to cachedGet.
CallAPOD ==
    /\ req = NoRequest
    /\ \E date \in OptDates : req' = getAPOD(date)
    /\ UNCHANGED <<prev, weatherVars, issVars>>

CallMarsPhotos ==
    /\ req = NoRequest
    /\ \E rover \in Rovers, sol \in OptSols, earthDate \in OptEarthDates, camera \in OptCameras :
        req' = getMarsPhotos(rover, sol, earthDate, camera)
    /\ UNCHANGED <<prev, weatherVars, issVars>>

CallNearEarthObjects ==
    /\ req = NoRequest
    /\ \E startDate \in Dates, endDate \in Dates :
        req' = getNearEarthObjects(startDate, endDate)
    /\ UNCHANGED <<prev, weatherVars, issVars>>

CallEarthImagery ==
    /\ req = NoRequest
    /\ \E lat \in Lats, lon \in Lons, date \in OptDates, dim \in OptDims :
        req' = getEarthImagery(lat, lon, date, dim)
    /\ UNCHANGED <<prev, weatherVars, issVars>>

CallDONKIEvents ==
    /\ req = NoRequest
    /\ \E type \in TypeStrings, startDate \in Dates :
        req' = getDONKIEvents(type, startDate, "2024-01-07")
    /\ UNCHANGED <<prev, weatherVars, issVars>>

\* The call returns; the client keeps nothing of it.
Return ==
    /\ req # NoRequest
    /\ req' = NoRequest
    /\ UNCHANGED <<prev, weatherVars, issVars>>

\* One NASAClient call following another: both requests are kept, as the cache
\* that cachedGet consults keeps what an earlier call stored under its key.
NextAPOD ==
    /\ \E date \in OptDates : req' = getAPOD(date)
    /\ prev' = req
    /\ UNCHANGED <<weatherVars, issVars>>

NextMarsPhotos ==
    /\ \E rover \in Rovers, sol \in OptSols, earthDate \in OptEarthDates, camera \in OptCameras :
        req' = getMarsPhotos(rover, sol, earthDate, camera)
    /\ prev' = req
    /\ UNCHANGED <<weatherVars, issVars>>

NextNearEarthObjects ==
    /\ \E startDate \in Dates, endDate \in Dates :
        req' = getNearEarthObjects(startDate, endDate)
    /\ prev' = req
    /\ UNCHANGED <<weatherVars, issVars>>

NextEarthImagery ==
    /\ \E lat \in Lats, lon \in Lons, date \in OptDates, dim \in OptDims :
        req' = getEarthImagery(lat, lon, date, dim)
    /\ prev' = req
    /\ UNCHANGED <<weatherVars, issVars>>

NextDONKIEvents ==
    /\ \E type \in TypeSamples, startDate \in Dates, endDate \in Dates :
        req' = getDONKIEvents(type, startDate, endDate)
    /\ prev' = req
    /\ UNCHANGED <<weatherVars, issVars>>

(***************************************************************************)
(* SpaceWeatherClient                                                      *)
(***************************************************************************)
\* The cachedGet calls in the order getSpaceWeatherSummary issues them:
\* getSolarWind, getGeomagneticActivity, getAuroraForecast (north, south),
\* get3DayForecast.
FetchOrder == <<"solarWind", "kp", "north", "south", "forecast">>
FetchNames == {FetchOrder[i] : i \in 1..Len(FetchOrder)}

Idle == [st |-> "idle", env |-> <<>>]
Pending == [st |-> "pending", env |-> <<>>]
Settled(env) == [st |-> "settled", env |-> <<env>>]

\* The envelopes cachedGet resolves with: a failure is an envelope, never a
\* rejected promise.
CachedGetSuccess(f, cached) ==
    [success  |-> TRUE,
     data     |-> "data:" \o f,
     metadata |-> [source |-> "NOAA-SWPC", cached |-> cached]]

CachedGetFailure(f) ==
    [success  |-> FALSE,
     error    |-> [code |-> "API_ERROR", message |-> "request failed:" \o f],
     metadata |-> [source |-> "NOAA-SWPC", cached |-> FALSE]]

CachedGetEnvelopes(f) ==
    {CachedGetSuccess(f, c) : c \in BOOLEAN} \cup {CachedGetFailure(f)}

\* env.data: undefined on an envelope that carries none.
Data(env) == IF "data" \in DOMAIN env THEN env.data ELSE "undefined"

\* Mutant: the aggregate reports cached when a hemisphere came from the cache.
AuroraMetadataPropagated(north, south) ==
    [source |-> "NOAA-SWPC", cached |-> north.metadata.cached \/ south.metadata.cached]

\* The metadata object literal of both getAuroraForecast returns.
AuroraMetadata(north, south) == [source |-> "NOAA-SWPC", cached |-> FALSE]

\* Mutant: && for ||.
AuroraFailedBoth(north, south) == ~north.success /\ ~south.success

\* if (!north.success || !south.success)
AuroraFailed(north, south) == ~north.success \/ ~south.success

\* What getAuroraForecast returns once Promise.all has resolved.
getAuroraForecast(north, south) ==
    IF AuroraFailed(north, south)
      THEN [success  |-> FALSE,
            error    |-> [code    |-> "AURORA_FORECAST_ERROR",
                          message |-> "Failed to fetch aurora forecast"],
            metadata |-> AuroraMetadata(north, south)]
      ELSE [success  |-> TRUE,
            data     |-> [north |-> Data(north), south |-> Data(south)],
            metadata |-> AuroraMetadata(north, south)]

\* Mutant: the aurora envelope is not checked.
SummaryFailedNoAurora(solarWind, geomagActivity, auroraEnv, forecast) ==
    ~solarWind.success \/ ~geomagActivity.success \/ ~forecast.success

\* if (!solarWind.success || !geomagActivity.success || !aurora.success || !forecast.success)
SummaryFailed(solarWind, geomagActivity, auroraEnv, forecast) ==
    ~solarWind.success \/ ~geomagActivity.success \/ ~auroraEnv.success \/ ~forecast.success

\* What getSpaceWeatherSummary returns once Promise.all has resolved.
getSpaceWeatherSummary(solarWind, geomagActivity, auroraEnv, forecast) ==
    IF SummaryFailed(solarWind, geomagActivity, auroraEnv, forecast)
      THEN [success  |-> FALSE,
            error    |-> [code    |-> "SPACE_WEATHER_ERROR",
                          message |-> "Failed to fetch complete space weather data"],
            metadata |-> [source |-> "NOAA-SWPC", cached |-> FALSE]]
      ELSE [success  |-> TRUE,
            data     |-> [solarWind           |-> Data(solarWind),
                          geomagneticActivity |-> Data(geomagActivity),
                          auroraForecast      |-> Data(auroraEnv),
                          forecast3Day        |-> Data(forecast)],
            metadata |-> [source |-> "NOAA-SWPC", cached |-> FALSE]]

IsSettled(f) == fetch[f].st = "settled"
Env(f) == fetch[f].env[1]

\* Mutant: a failure aborts the requests still pending.
AfterSettleAborting(fs, f, env) ==
    [g \in DOMAIN fs |->
        IF g = f THEN Settled(env)
        ELSE IF ~env.success /\ fs[g].st = "pending" THEN Idle
        ELSE fs[g]]

\* The effect of one cachedGet promise settling on the promises of the call.
AfterSettle(fs, f, env) == [fs EXCEPT ![f] = Settled(env)]

\* A caller invokes getSpaceWeatherSummary.
CallSummary ==
    /\ sumPc = "idle"
    /\ sumPc' = "issuing"
    /\ UNCHANGED <<fetch, order, auroraPc, aurora, summary, nasaVars, issVars>>

\* The synchronous part of the call: the elements of the Promise.all arrays are
\* evaluated in order, each issuing its cachedGet; getAuroraForecast suspends at
\* its own Promise.all once both hemispheres are issued, getSpaceWeatherSummary
\* once all four elements are.
Issue ==
    /\ sumPc = "issuing"
    /\ \E i \in 1..Len(FetchOrder) :
        /\ fetch[FetchOrder[i]].st = "idle"
        /\ \A j \in 1..(i - 1) : fetch[FetchOrder[j]].st # "idle"
        /\ fetch' = [fetch EXCEPT ![FetchOrder[i]] = Pending]
        /\ auroraPc' = CASE FetchOrder[i] = "north" -> "issuing"
                         [] FetchOrder[i] = "south" -> "await"
                         [] OTHER -> auroraPc
        /\ sumPc' = IF i = Len(FetchOrder) THEN "await" ELSE "issuing"
    /\ UNCHANGED <<order, aurora, summary, nasaVars, issVars>>

\* A cachedGet promise resolves with an envelope.  Its continuation runs from
\* the event loop, so never while the synchronous part of the call is running.
Settle ==
    /\ sumPc # "issuing"
    /\ \E f \in FetchNames :
        /\ fetch[f].st = "pending"
        /\ \E env \in CachedGetEnvelopes(f) : fetch' = AfterSettle(fetch, f, env)
        /\ order' = Append(order, f)
    /\ UNCHANGED <<sumPc, auroraPc, aurora, summary, nasaVars, issVars>>

\* getAuroraForecast resumes after its Promise.all and returns.
AuroraJoin ==
    /\ auroraPc = "await"
    /\ IsSettled("north") /\ IsSettled("south")
    /\ aurora' = <<getAuroraForecast(Env("north"), Env("south"))>>
    /\ auroraPc' = "done"
    /\ UNCHANGED <<fetch, order, sumPc, summary, nasaVars, issVars>>

\* getSpaceWeatherSummary resumes after its Promise.all and returns.
SummaryJoin ==
    /\ sumPc = "await"
    /\ IsSettled("solarWind") /\ IsSettled("kp") /\ IsSettled("forecast")
    /\ aurora # <<>>
    /\ summary' = <<getSpaceWeatherSummary(Env("solarWind"), Env("kp"), aurora[1], Env("forecast"))>>
    /\ sumPc' = "done"
    /\ UNCHANGED <<fetch, order, auroraPc, aurora, nasaVars, issVars>>

(***************************************************************************)
(* ISSPage                                                                 *)
(***************************************************************************)
MaxCycles == 3

\* What one awaited fetch(...).json() of fetchData produces: it throws (the
\* request or the JSON parse rejects), or yields { success, data }.
Throws == [throws |-> TRUE, success |-> FALSE, data |-> Undefined]
Response(success, data) == [throws |-> FALSE, success |-> success, data |-> data]

\* What lastEvent keeps of a response: whether it threw, its success flag and
\* whether it carried data.
Outcome(resp) ==
    [throws |-> resp.throws, success |-> resp.success, hasData |-> resp.data # Undefined]

Positions == {"posA", "posB"}
PositionResponses ==
    {Throws, Response(FALSE, Undefined), Response(TRUE, Undefined)}
        \cup {Response(TRUE, <<p>>) : p \in Positions}

\* data.people of /api/iss/astronauts
PeopleLists ==
    {<<>>,
     <<[name |-> "Ann", craft |-> "ISS"], [name |-> "Bo", craft |-> "Tiangong"]>>}
AstronautResponses ==
    {Throws, Response(FALSE, Undefined), Response(TRUE, Undefined)}
        \cup {Response(TRUE, <<[people |-> l]>>) : l \in PeopleLists}

ErrorMessage == "Failed to load ISS data"

\* astroData.data.people.filter((p) => p.craft === 'ISS')
FilterISS(people) == SelectSeq(people, LAMBDA p : p.craft = "ISS")

\* Mutant: setPosition(posData.data) without the success check.
PositionAfterUnchecked(resp, pos) == resp.data

\* if (posData.success) setPosition(posData.data)
PositionAfter(resp, pos) == IF resp.success THEN resp.data ELSE pos

\* if (astroData.success) setAstronauts(astroData.data.people.filter(...))
AstronautsAfter(resp, astros) ==
    IF resp.success THEN FilterISS(resp.data[1].people) ELSE astros

\* The astronauts half of the try block throws when the fetch or the parse
\* rejects, and when success is true but data is missing (a TypeError).
AstronautsThrows(resp) == resp.throws \/ (resp.success /\ resp.data = Undefined)

\* Mutant: a step that does not throw calls setError(null).
ErrorAfterClearing(threw, err) == IF threw THEN <<ErrorMessage>> ELSE Undefined

\* The error state after a step of fetchData: the catch block sets it, and
\* nothing else writes it.
ErrorAfter(threw, err) == IF threw THEN <<ErrorMessage>> ELSE err

\* Mutant: the effect returns no cleanup.
CleanupMissing(timer) == timer

\* The effect cleanup: return () => clearInterval(interval)
Cleanup(timer) == "cleared"

\* The timer fires whenever it is set, whatever the earlier cycles are doing.
TimerFires(timer, cs) == timer = "active"

\* Which of the three returns of ISSPage renders.
View ==
    IF loading THEN "loading"
    ELSE IF error # Undefined THEN "error"
    ELSE "page"

\* useEffect runs after the first render: fetchData() starts the first cycle,
\* which suspends at its first await, and setInterval sets the timer.
Mount ==
    /\ status = "rendered"
    /\ status' = "mounted"
    /\ cycles' = Append(cycles, "position")
    /\ interval' = "active"
    /\ UNCHANGED <<position, astronauts, loading, error, lastEvent, atUnmount,
                   nasaVars, weatherVars>>

\* The interval timer fires: fetchData() starts another cycle.
Tick ==
    /\ TimerFires(interval, cycles)
    /\ Len(cycles) < MaxCycles
    /\ cycles' = Append(cycles, "position")
    /\ UNCHANGED <<position, astronauts, loading, error, status, interval, lastEvent,
                   atUnmount, nasaVars, weatherVars>>

\* The component unmounts: React runs the effect cleanup.
Unmount ==
    /\ status = "mounted"
    /\ status' = "unmounted"
    /\ interval' = Cleanup(interval)
    /\ atUnmount' = cycles
    /\ UNCHANGED <<position, astronauts, loading, error, cycles, lastEvent,
                   nasaVars, weatherVars>>

\* Cycle c resumes after awaiting the position response.  The state setters
\* called before the next await are batched into one render.
PositionResponseOf(c) ==
    \E resp \in PositionResponses :
        /\ c <= Len(cycles)
        /\ cycles[c] = "position"
        /\ lastEvent' = [cycle |-> c, stage |-> "position", resp |-> Outcome(resp)]
        /\ IF resp.throws
             THEN /\ error' = ErrorAfter(TRUE, error)
                  /\ loading' = FALSE
                  /\ cycles' = [cycles EXCEPT ![c] = "done"]
                  /\ UNCHANGED position
             ELSE /\ position' = PositionAfter(resp, position)
                  /\ error' = ErrorAfter(FALSE, error)
                  /\ cycles' = [cycles EXCEPT ![c] = "astronauts"]
                  /\ UNCHANGED loading
        /\ UNCHANGED <<astronauts, status, interval, atUnmount, nasaVars, weatherVars>>

PositionResponse == \E c \in 1..Len(cycles) : PositionResponseOf(c)

\* Cycle c resumes after awaiting the astronauts response.
AstronautsResponseOf(c) ==
    \E resp \in AstronautResponses :
        /\ c <= Len(cycles)
        /\ cycles[c] = "astronauts"
        /\ lastEvent' = [cycle |-> c, stage |-> "astronauts", resp |-> Outcome(resp)]
        /\ IF AstronautsThrows(resp)
             THEN /\ error' = ErrorAfter(TRUE, error)
                  /\ UNCHANGED astronauts
             ELSE /\ astronauts' = AstronautsAfter(resp, astronauts)
                  /\ error' = ErrorAfter(FALSE, error)
        /\ loading' = FALSE
        /\ cycles' = [cycles EXCEPT ![c] = "done"]
        /\ UNCHANGED <<position, status, interval, atUnmount, nasaVars, weatherVars>>

AstronautsResponse == \E c \in 1..Len(cycles) : AstronautsResponseOf(c)

(***************************************************************************)
(* Specifications                                                          *)
(***************************************************************************)
Init ==
    /\ req = NoRequest
    /\ prev = NoRequest
    /\ fetch = [f \in FetchNames |-> Idle]
    /\ order = <<>>
    /\ sumPc = "idle"
    /\ auroraPc = "idle"
    /\ aurora = <<>>
    /\ summary = <<>>
    /\ position = Undefined
    /\ astronauts = <<>>
    /\ loading = TRUE
    /\ error = Undefined
    /\ status = "rendered"
    /\ interval = "none"
    /\ cycles = <<>>
    /\ lastEvent = [cycle |-> 0, stage |-> "none", resp |-> Outcome(Throws)]
    /\ atUnmount = <<>>

NasaNext ==
    \/ CallAPOD
    \/ CallMarsPhotos
    \/ CallNearEarthObjects
    \/ CallEarthImagery
    \/ CallDONKIEvents
    \/ Return

CacheNext ==
    \/ NextAPOD
    \/ NextMarsPhotos
    \/ NextNearEarthObjects
    \/ NextEarthImagery
    \/ NextDONKIEvents

WeatherNext ==
    \/ CallSummary
    \/ Issue
    \/ Settle
    \/ AuroraJoin
    \/ SummaryJoin

IssNext ==
    \/ Mount
    \/ Tick
    \/ Unmount
    \/ PositionResponse
    \/ AstronautsResponse

SpecNasa == Init /\ [][NasaNext]_vars
SpecCache == Init /\ [][CacheNext]_vars
SpecWeather == Init /\ [][WeatherNext]_vars
SpecIss == Init /\ [][IssNext]_vars

\* A fetch the browser has issued ends: it resolves or it rejects.
FairSpecIss ==
    /\ SpecIss
    /\ \A c \in 1..MaxCycles :
        WF_vars(PositionResponseOf(c)) /\ WF_vars(AstronautsResponseOf(c))

(***************************************************************************)
(* Properties                                                              *)
(***************************************************************************)
AllowList == {"FLR", "SEP", "CME", "IPS", "MPC", "GST", "RBE", "HSS"}

SuccessFields == {"success", "data", "metadata"}
FailureFields == {"success", "error", "metadata"}

\* C1: getSpaceWeatherSummary returns a success envelope exactly when
\* getSolarWind, getGeomagneticActivity, getAuroraForecast and get3DayForecast
\* all returned success, and then carries their four data; in every other case
\* it returns the failure envelope with code SPACE_WEATHER_ERROR, which carries
\* no data and not the failing sub-fetch's own code.
C1_SummaryAllOrNothing ==
    summary # <<>> =>
        LET r == summary[1]
            allOk == /\ Env("solarWind").success
                     /\ Env("kp").success
                     /\ aurora[1].success
                     /\ Env("forecast").success
        IN  /\ r.success <=> allOk
            /\ r.success =>
                /\ DOMAIN r = SuccessFields
                /\ r.data = [solarWind           |-> Env("solarWind").data,
                             geomagneticActivity |-> Env("kp").data,
                             auroraForecast      |-> aurora[1].data,
                             forecast3Day        |-> Env("forecast").data]
            /\ ~r.success =>
                /\ DOMAIN r = FailureFields
                /\ r.error.code = "SPACE_WEATHER_ERROR"

\* C1 witness: only the aurora forecast failed, with its own code, and the
\* summary is the aggregate failure.
C1_Witness ==
    /\ summary # <<>>
    /\ ~summary[1].success
    /\ Env("solarWind").success /\ Env("kp").success /\ Env("forecast").success
    /\ ~aurora[1].success
    /\ aurora[1].error.code = "AURORA_FORECAST_ERROR"

\* C2: getAuroraForecast returns success with data {north, south} exactly when
\* both hemisphere cachedGets returned success; otherwise it returns the
\* failure envelope with code AURORA_FORECAST_ERROR and no data.
C2_AuroraAllOrNothing ==
    aurora # <<>> =>
        LET r == aurora[1]
        IN  /\ r.success <=> (Env("north").success /\ Env("south").success)
            /\ r.success =>
                /\ DOMAIN r = SuccessFields
                /\ r.data = [north |-> Env("north").data, south |-> Env("south").data]
            /\ ~r.success =>
                /\ DOMAIN r = FailureFields
                /\ r.error.code = "AURORA_FORECAST_ERROR"

\* C2 witness: the northern hemisphere succeeded, the southern failed, and the
\* forecast is the failure envelope.
C2_Witness ==
    /\ aurora # <<>>
    /\ Env("north").success
    /\ ~Env("south").success
    /\ ~aurora[1].success

\* C3: cache keys are distinct per distinct parameter tuple, so that two calls
\* that share a cache key never send different request parameters (or a
\* different path) to the vendor.
C3_CacheKeysDistinct ==
    (req # NoRequest /\ prev # NoRequest /\ prev.key = req.key) =>
        (prev.path = req.path /\ prev.params = req.params)

\* C4: the getMarsPhotos request carries exactly one of sol and earth_date: a
\* supplied sol (0 included) is sent as sol whatever earthDate is; without sol
\* a non-empty earthDate is sent as earth_date; without either, sol is 1000.
C4_MarsSolPrecedence ==
    req.op = "getMarsPhotos" =>
        LET a == req.args
            p == req.params
            hasSol == "sol" \in DOMAIN p
            hasDate == "earth_date" \in DOMAIN p
        IN  /\ hasSol # hasDate
            /\ a.sol # Undefined => (hasSol /\ p.sol = a.sol[1])
            /\ (a.sol = Undefined /\ TruthyStr(a.earthDate)) =>
                    (hasDate /\ p.earth_date = a.earthDate[1])
            /\ (a.sol = Undefined /\ ~TruthyStr(a.earthDate)) =>
                    (hasSol /\ p.sol = 1000)

\* C4 witness: sol 0 was supplied together with an earth date, and sol 0 is
\* what the request carries.
C4_Witness ==
    /\ req.op = "getMarsPhotos"
    /\ req.args.sol = <<0>>
    /\ req.args.earthDate = <<"2024-01-01">>
    /\ req.params.sol = 0

\* C5: the DONKI path segment and cache-key segment are the upper-cased type
\* when that is in the allow-list and FLR otherwise, so always a member of the
\* allow-list.
C5_DonkiAllowList ==
    req.op = "getDONKIEvents" =>
        LET up == ToUpperCase(req.args.type)
            seg == IF up \in AllowList THEN up ELSE "FLR"
        IN  /\ req.segment = seg
            /\ req.segment \in AllowList
            /\ req.path = "/DONKI/" \o seg
            /\ req.key = "donki:" \o seg \o ":" \o req.args.startDate
                            \o ":" \o req.args.endDate

\* C5 witness: a lower-case type of the allow-list is requested upper-cased.
C5_Witness ==
    /\ req.op = "getDONKIEvents"
    /\ req.args.type = <<"c", "m", "e">>
    /\ req.segment = "CME"

\* C6: once the error state is set it stays set, whatever later poll cycles
\* do, and the page renders the error view from then on.
C6_ErrorSticky ==
    /\ [][error # Undefined => error' # Undefined]_vars
    /\ [](error # Undefined => View = "error")

\* C6 witness: with the error state set, a later cycle has just succeeded and
\* stored position and astronauts, and the error view still renders.
C6_Witness ==
    /\ error # Undefined
    /\ lastEvent.stage = "astronauts"
    /\ lastEvent.resp.success
    /\ lastEvent.resp.hasData
    /\ position # Undefined
    /\ astronauts # <<>>
    /\ View = "error"

InFlight(c) == c <= Len(cycles) /\ cycles[c] # "done"

\* C7: one poll cycle starts at mount; while mounted the timer can always
\* start one more, whatever the earlier cycles are doing; cycles start only
\* while mounted and none starts after unmount; unmounting leaves the cycles
\* in flight as they are, and every cycle started runs to completion.
C7_PollingLifecycle ==
    /\ [][(status = "rendered" /\ status' = "mounted") =>
            (cycles = <<>> /\ cycles' = <<"position">>)]_vars
    /\ []((status = "mounted" /\ Len(cycles) < MaxCycles) => ENABLED Tick)
    /\ [][Len(cycles') # Len(cycles) =>
            (status' = "mounted" /\ Len(cycles') = Len(cycles) + 1)]_vars
    /\ [][status = "unmounted" => Len(cycles') = Len(cycles)]_vars
    /\ [][(status = "mounted" /\ status' = "unmounted") => cycles' = cycles]_vars
    /\ \A c \in 1..MaxCycles : [](InFlight(c) => <>(~InFlight(c)))

\* C7 witness: a cycle that was in flight when the component unmounted has
\* since run to completion.
C7_Witness ==
    /\ status = "unmounted"
    /\ interval = "cleared"
    /\ \E c \in 1..Len(atUnmount) : atUnmount[c] # "done" /\ cycles[c] = "done"

\* C8: every cachedGet of the call is issued before the caller awaits and
\* before any of them settles; a promise that settles, with a failure or not,
\* leaves the others as they are, and a pending one stays pending until it
\* settles; an aggregate envelope exists only once all its sub-fetches have
\* settled; and its success is decided by their outcomes alone.
C8_ParallelJoin ==
    /\ [](sumPc \in {"await", "done"} => \A f \in FetchNames : fetch[f].st # "idle")
    /\ [](auroraPc \in {"await", "done"} =>
            (fetch["north"].st # "idle" /\ fetch["south"].st # "idle"))
    /\ []((\E f \in FetchNames : IsSettled(f)) => \A g \in FetchNames : fetch[g].st # "idle")
    /\ [][\A f \in FetchNames :
            /\ fetch[f].st = "pending" => fetch'[f].st \in {"pending", "settled"}
            /\ fetch[f].st = "settled" => fetch'[f] = fetch[f]]_vars
    /\ [](aurora # <<>> => (IsSettled("north") /\ IsSettled("south")))
    /\ [](summary # <<>> => (aurora # <<>> /\ \A f \in FetchNames : IsSettled(f)))
    /\ [](Len(order) = Cardinality({order[i] : i \in 1..Len(order)}))
    /\ [](summary # <<>> =>
            (summary[1].success <=> \A f \in FetchNames : Env(f).success))

\* C8 witness: the fetch issued last failed and settled first, every other
\* fetch settled after it with success, and the summary was then produced.
C8_Witness ==
    /\ summary # <<>>
    /\ Len(order) = 5
    /\ order[1] = "forecast"
    /\ ~Env("forecast").success
    /\ \A f \in FetchNames \ {"forecast"} : Env(f).success

Well(env) ==
    /\ ("data" \in DOMAIN env) # ("error" \in DOMAIN env)
    /\ env.success <=> "data" \in DOMAIN env
    /\ env.metadata = [source |-> "NOAA-SWPC", cached |-> FALSE]

\* C9: the envelopes getAuroraForecast and getSpaceWeatherSummary build carry
\* exactly one of data and error, data when success and error when not, and
\* metadata with source NOAA-SWPC and cached false, whatever the cached flags
\* of the sub-fetch envelopes.
C9_EnvelopeInvariant ==
    /\ aurora # <<>> => Well(aurora[1])
    /\ summary # <<>> => Well(summary[1])

\* C9 witness: a successful summary built from sub-fetch envelopes that all
\* came from the cache.
C9_Witness ==
    /\ summary # <<>>
    /\ summary[1].success
    /\ \A f \in FetchNames : Env(f).metadata.cached

\* The step just taken delivered a response to a cycle at this stage.
StepOf(stage) == lastEvent' # lastEvent /\ lastEvent'.stage = stage

\* The astronauts half threw: the fetch or the parse rejected, or success came
\* without data.
AstronautsThrew(o) == o.throws \/ (o.success /\ ~o.hasData)

\* C10: a response with success false changes neither position, astronauts
\* nor the error state; loading is true exactly until the first cycle
\* completes, however it ends, and never true again; a throw in the
\* astronauts half leaves the stored position in place.
C10_CycleFrame ==
    /\ [][(lastEvent' # lastEvent /\ ~lastEvent'.resp.throws /\ ~lastEvent'.resp.success) =>
            (position' = position /\ astronauts' = astronauts /\ error' = error)]_vars
    /\ [](loading <=> \A c \in 1..Len(cycles) : cycles[c] # "done")
    /\ [][~loading => ~loading']_vars
    /\ [][(StepOf("astronauts") /\ AstronautsThrew(lastEvent'.resp)) =>
            (position' = position /\ error' # Undefined /\ ~loading')]_vars

\* C10 witness: the only cycle stored a position and then threw in its
\* astronauts half: the position is kept, the error set, loading over.
C10_Witness ==
    /\ cycles = <<"done">>
    /\ lastEvent.stage = "astronauts"
    /\ AstronautsThrew(lastEvent.resp)
    /\ position # Undefined
    /\ error # Undefined
    /\ ~loading

=============================================================================
